---- MODULE Spec2Model ----
(***************************************************************************)
(* Model of the logging bootstrap of prismedic/arsenal:                    *)
(*   loggerfx/loggerfx.go  level vocabulary, validator rule, viper         *)
(*                         defaults, the dual-sink logger factory New      *)
(*   infofx/infofx.go      the OnStart / OnStop lifecycle hooks            *)
(* Strings that the code builds by formatting are kept as tuples of their  *)
(* pieces; paths are kept as [abs, elems] so that path.Join is computed.   *)
(***************************************************************************)
EXTENDS Integers, Sequences, FiniteSets, TLC

VARIABLES
    pc,          \* position of the startup sequence / of the direct caller
    pkgName,     \* what config.GetPackageName() returns
    viper,       \* defaults registered by init()
    supplied,    \* logs.* values supplied by the environment (<<>> = absent)
    config,      \* the LoggerConfig handed to validation and to New
    validate,    \* rules registered on the validator
    verrs,       \* validation errors found, as <<field, tag>> pairs
    newRet,      \* what New returned: [logger, err]
    fileSink,    \* [built, level, out]  the JSON core on the rotated file
    consoleSink, \* [built, level, out]  the console core on locked stderr
    errOut,      \* zap's internal error output ("write error" reports)
    calls,       \* log calls made so far: [level, msg, fileOK, outcome]
    trace,       \* events of the lifecycle hooks, in order
    hookRet,     \* return values of the hooks that ran
    cpc,         \* concurrent callers: position of each caller
    csent,       \* concurrent callers: messages fully emitted by each caller
    mu,          \* holder of the console lock (0 = free)
    stderr,      \* chunks received by the standard error stream, in order
    mkdirErr,    \* the error os.MkdirAll gave to New (<<>> = nil)
    gotInfo      \* what GetInfo returned to the OnStart hook

vars == <<pc, pkgName, viper, supplied, config, validate, verrs, newRet,
          fileSink, consoleSink, errOut, calls, trace, hookRet,
          cpc, csent, mu, stderr, mkdirErr, gotInfo>>

lifeVars == <<pkgName, viper, supplied, validate, verrs, trace, hookRet, mkdirErr, gotInfo>>
concVars == <<cpc, csent, mu, stderr>>

(***************************************************************************)
(* Bounds                                                                  *)
(***************************************************************************)
MaxCalls == 2        \* log calls made by the direct caller of New
NumCallers == 2      \* concurrent log callers
MsgsPerCaller == 1   \* messages each concurrent caller emits
LineLen == 2         \* chunks the stream needs to take one encoded line

(***************************************************************************)
(* Level vocabulary                                                        *)
(***************************************************************************)
zapDebugLevel == -1
zapInfoLevel == 0
zapWarnLevel == 1
zapErrorLevel == 2
zapDPanicLevel == 3
zapPanicLevel == 4
zapFatalLevel == 5

ZapLevels == zapDebugLevel .. zapFatalLevel

\* zapcore.Level.String()
LevelString(l) ==
    CASE l = zapDebugLevel  -> "debug"
      [] l = zapInfoLevel   -> "info"
      [] l = zapWarnLevel   -> "warn"
      [] l = zapErrorLevel  -> "error"
      [] l = zapDPanicLevel -> "dpanic"
      [] l = zapPanicLevel  -> "panic"
      [] l = zapFatalLevel  -> "fatal"

\* zapcore.Level.CapitalString()
CapitalString(l) ==
    CASE l = zapDebugLevel  -> "DEBUG"
      [] l = zapInfoLevel   -> "INFO"
      [] l = zapWarnLevel   -> "WARN"
      [] l = zapErrorLevel  -> "ERROR"
      [] l = zapDPanicLevel -> "DPANIC"
      [] l = zapPanicLevel  -> "PANIC"
      [] l = zapFatalLevel  -> "FATAL"

DebugLevel == LevelString(zapDebugLevel)
InfoLevel == LevelString(zapInfoLevel)
WarnLevel == LevelString(zapWarnLevel)
ErrorLevel == LevelString(zapErrorLevel)
DPanicLevel == LevelString(zapDPanicLevel)
PanicLevel == LevelString(zapPanicLevel)
FatalLevel == LevelString(zapFatalLevel)

\* logLevelMap without its dpanic entry
logLevelMap_NoDPanic ==
    (DebugLevel :> zapDebugLevel) @@ (InfoLevel :> zapInfoLevel) @@
    (WarnLevel :> zapWarnLevel) @@ (ErrorLevel :> zapErrorLevel) @@
    (PanicLevel :> zapPanicLevel) @@ (FatalLevel :> zapFatalLevel)

logLevelMap ==
    (DebugLevel :> zapDebugLevel) @@ (InfoLevel :> zapInfoLevel) @@
    (WarnLevel :> zapWarnLevel) @@ (ErrorLevel :> zapErrorLevel) @@
    (DPanicLevel :> zapDPanicLevel) @@ (PanicLevel :> zapPanicLevel) @@
    (FatalLevel :> zapFatalLevel)

\* a validator that also accepts the capitalised spellings
validateLogLevel_FoldCase(field) ==
    \/ field \in DOMAIN logLevelMap
    \/ field \in {"Info", "INFO"}

\* _, ok := logLevelMap[LogLevel(field)]; return ok
validateLogLevel(field) == field \in DOMAIN logLevelMap

\* a lookup that falls back to the lowest level
LookupLevel_Lowest(name) ==
    IF name \in DOMAIN logLevelMap THEN logLevelMap[name] ELSE zapDebugLevel

\* logLevelMap[name]: a Go map read, the zero zapcore.Level for a missing key
LookupLevel(name) ==
    IF name \in DOMAIN logLevelMap THEN logLevelMap[name] ELSE 0

(***************************************************************************)
(* Paths                                                                   *)
(***************************************************************************)
EmptyString == [abs |-> FALSE, elems |-> <<>>]
VarLog == [abs |-> TRUE, elems |-> <<"var", "log">>]

RECURSIVE CleanElems(_, _)
\* path.Clean on the elements: drop "" and ".", let ".." remove its parent
CleanElems(todo, done) ==
    IF todo = <<>> THEN done
    ELSE LET e == Head(todo) IN
         IF e = "" \/ e = "." THEN CleanElems(Tail(todo), done)
         ELSE IF e = ".." THEN
              CleanElems(Tail(todo),
                         IF done = <<>> THEN <<>>
                         ELSE SubSeq(done, 1, Len(done) - 1))
         ELSE CleanElems(Tail(todo), Append(done, e))

\* path.Join(dir, name) for a rooted dir
pathJoin(dir, name) ==
    [abs |-> dir.abs, elems |-> CleanElems(dir.elems \o <<name>>, <<>>)]

(***************************************************************************)
(* Input sets                                                              *)
(***************************************************************************)
CanonicalNames == {"debug", "info", "warn", "error", "dpanic", "panic", "fatal"}
OtherNames == {"", "Info", "INFO", "trace", " info", "warning"}
Candidates == CanonicalNames \cup OtherNames
PackageNames == {"arsenal", "", ".."}
TmpLogs == [abs |-> TRUE, elems |-> <<"tmp", "logs">>]
Paths == {TmpLogs, EmptyString}
NoErr == <<>>
MkdirErrs == {<<"permission denied">>, <<"not a directory">>}

(***************************************************************************)
(* Defaults and configuration                                              *)
(***************************************************************************)
\* defaults that register the level in capitals
ViperDefaults_Capital(name) ==
    [filePath     |-> pathJoin(VarLog, name),
     fileLevel    |-> CapitalString(zapInfoLevel),
     consoleLevel |-> InfoLevel]

\* func init(): the three viper.SetDefault calls
ViperDefaults(name) ==
    [filePath     |-> pathJoin(VarLog, name),
     fileLevel    |-> InfoLevel,
     consoleLevel |-> InfoLevel]

\* a value supplied under a key wins over the key's default
Pick(sup, def) == IF sup = <<>> THEN def ELSE sup[1]

\* unmarshalling of the logs.* keys into a LoggerConfig
LoadConfig(sup, defaults) ==
    [File    |-> [Level |-> Pick(sup.fileLevel, defaults.fileLevel),
                  Path  |-> Pick(sup.filePath, defaults.filePath)],
     Console |-> [Level |-> Pick(sup.consoleLevel, defaults.consoleLevel)]]

\* the tags of one Level field: `required,loglevel`, the first failure wins
LevelFieldErrs(field, value, rules) ==
    IF value = "" THEN {<<field, "required">>}
    ELSE IF "loglevel" \in rules /\ ~validateLogLevel(value)
         THEN {<<field, "loglevel">>}
         ELSE {}

\* validation of a LoggerConfig by its struct tags
StructErrs(cfg, rules) ==
    LevelFieldErrs("File.Level", cfg.File.Level, rules)
    \cup (IF cfg.File.Path = EmptyString THEN {<<"File.Path", "required">>} ELSE {})
    \cup LevelFieldErrs("Console.Level", cfg.Console.Level, rules)

(***************************************************************************)
(* The logger factory                                                      *)
(***************************************************************************)
Unbuilt == [built |-> FALSE, level |-> 0, out |-> <<>>]

\* os.MkdirAll: the empty path never exists and cannot be made
MkdirAll(path, envErr) ==
    IF path = EmptyString THEN <<"no such file or directory">> ELSE envErr

\* fmt.Errorf("...: %w", err): the new message in front of the chain it wraps
Wrap(msg, err) == <<msg>> \o err

fileLogLevel(cfg) == LookupLevel(cfg.File.Level)

\* a console threshold read from the file section
consoleLogLevel_FromFile(cfg) == LookupLevel(cfg.File.Level)

consoleLogLevel(cfg) == LookupLevel(cfg.Console.Level)

\* a factory that goes on after a failed MkdirAll
New_IgnoreMkdir(cfg, envErr) ==
    [logger  |-> TRUE,
     err     |-> NoErr,
     file    |-> [built |-> TRUE, level |-> fileLogLevel(cfg), out |-> <<>>],
     console |-> [built |-> TRUE, level |-> consoleLogLevel(cfg), out |-> <<>>]]

\* func New(config *LoggerConfig) (*zap.SugaredLogger, error)
New(cfg, envErr) ==
    LET err == MkdirAll(cfg.File.Path, envErr) IN
    IF err # NoErr
    THEN [logger  |-> FALSE,
          err     |-> Wrap("error in creating log file folder for writing", err),
          file    |-> Unbuilt,
          console |-> Unbuilt]
    ELSE [logger  |-> TRUE,
          err     |-> NoErr,
          file    |-> [built |-> TRUE, level |-> fileLogLevel(cfg), out |-> <<>>],
          console |-> [built |-> TRUE, level |-> consoleLogLevel(cfg), out |-> <<>>]]

(***************************************************************************)
(* Encoders                                                                *)
(***************************************************************************)
\* the colors of the logger package, one per name
DebugColor == "debug color"
InfoColor == "info color"
WarnColor == "warn color"
ErrorColor == "error color"
FatalColor == "fatal color"

\* a color map that files dpanic under the error color
colorMap_DPanicAsError ==
    (zapDebugLevel :> DebugColor) @@ (zapInfoLevel :> InfoColor) @@
    (zapWarnLevel :> WarnColor) @@ (zapErrorLevel :> ErrorColor) @@
    (zapDPanicLevel :> ErrorColor) @@ (zapFatalLevel :> FatalColor) @@
    (zapPanicLevel :> FatalColor)

colorMap ==
    (zapDebugLevel :> DebugColor) @@ (zapInfoLevel :> InfoColor) @@
    (zapWarnLevel :> WarnColor) @@ (zapErrorLevel :> ErrorColor) @@
    (zapDPanicLevel :> FatalColor) @@ (zapFatalLevel :> FatalColor) @@
    (zapPanicLevel :> FatalColor)

\* colorMap[l].Sprintf("[%s]", l.CapitalString())
EncodeLevel(l) ==
    [color |-> colorMap[l], text |-> <<"[", CapitalString(l), "]">>]

ConsoleLine(l, msg) == [tag |-> EncodeLevel(l), msg |-> msg]
FileLine(l, msg) == [level |-> LevelString(l), msg |-> msg]

(***************************************************************************)
(* A log call on the tee of the two cores                                  *)
(***************************************************************************)
\* zapcore.Level.Enabled, the check each core makes on its own threshold
Enabled(threshold, l) == l >= threshold

\* a tee that gives up at the first core whose write fails
ConsoleWritten_StopAtError(sinkC, sinkF, l, fileOK) ==
    /\ sinkC.built
    /\ Enabled(sinkC.level, l)
    /\ (sinkF.built /\ Enabled(sinkF.level, l)) => fileOK

FileTried(sinkF, l) == sinkF.built /\ Enabled(sinkF.level, l)
FileWritten(sinkF, l, fileOK) == FileTried(sinkF, l) /\ fileOK

\* the console core is written whenever it accepts the level
ConsoleWritten(sinkC, sinkF, l, fileOK) ==
    sinkC.built /\ Enabled(sinkC.level, l)

\* what the call does to its caller once the cores were written
CallOutcome(l, fileFailed) ==
    CASE l = zapPanicLevel -> "panic"
      [] l = zapFatalLevel -> "exit"
      [] OTHER             -> "return"

RECURSIVE LogAll(_, _, _, _)
\* the sinks after logging msgs at level l, in order
\* s = [file, console, errOut]
LogAll(s, l, msgs, fileOK) ==
    IF msgs = <<>> THEN s
    ELSE LET m == Head(msgs)
             s1 == [file    |-> IF FileWritten(s.file, l, fileOK)
                                 THEN [s.file EXCEPT !.out = Append(@, FileLine(l, m))]
                                 ELSE s.file,
                    console |-> IF ConsoleWritten(s.console, s.file, l, fileOK)
                                 THEN [s.console EXCEPT !.out = Append(@, ConsoleLine(l, m))]
                                 ELSE s.console,
                    errOut  |-> IF FileTried(s.file, l) /\ ~fileOK
                                 THEN Append(s.errOut, <<"write error", m>>)
                                 ELSE s.errOut]
         IN LogAll(s1, l, Tail(msgs), fileOK)

Sinks == [file |-> fileSink, console |-> consoleSink, errOut |-> errOut]

(***************************************************************************)
(* Lifecycle hooks of infofx                                               *)
(***************************************************************************)
Info(host, commit) ==
    [Name |-> "arsenal", Platform |-> "linux/amd64", Runtime |-> "go1.21",
     HostName |-> host, BuildCommit |-> commit, BuildDate |-> "2024-01-01"]

GetInfoResults ==
    {[info |-> Info(h, c), err |-> NoErr] : h \in {"host-a", "host-b"}, c \in {"abc123", "unknown"}}
    \cup {[info |-> Info("", ""), err |-> <<"hostname unavailable">>]}

NoInfo == [info |-> Info("", ""), err |-> NoErr]

LogEv(msg) == [ev |-> "log", arg |-> msg]
CallEv(fn) == [ev |-> "call", arg |-> fn]
Logs(msgs) == [i \in 1 .. Len(msgs) |-> LogEv(msgs[i])]

InfoFields(info) ==
    <<info.Name, info.Platform, info.Runtime, info.HostName, info.BuildCommit, info.BuildDate>>

\* a hook that logs the fields it has before it looks at the error
OnStart_LogFirst(gi) ==
    [msgs  |-> <<"Starting application:">> \o InfoFields(gi.info),
     trace |-> <<LogEv("Starting application:"), CallEv("GetInfo")>>
               \o Logs(InfoFields(gi.info)),
     ret   |-> gi.err]

\* the OnStart hook appended by DisplayInfo
OnStart(gi) ==
    IF gi.err # NoErr
    THEN [msgs  |-> <<"Starting application:">>,
          trace |-> <<LogEv("Starting application:"), CallEv("GetInfo")>>,
          ret   |-> gi.err]
    ELSE [msgs  |-> <<"Starting application:">> \o InfoFields(gi.info),
          trace |-> <<LogEv("Starting application:"), CallEv("GetInfo")>>
                    \o Logs(InfoFields(gi.info)),
          ret   |-> NoErr]

ShutdownMsg == "Shutting down gracefully, press Ctrl+C again to force"

\* the OnStop hook appended by cleanup
OnStop ==
    [msgs |-> <<ShutdownMsg>>, trace |-> <<LogEv(ShutdownMsg)>>, ret |-> NoErr]

(***************************************************************************)
(* Initial states                                                          *)
(***************************************************************************)
Opt(S) == {<<>>} \cup {<<x>> : x \in S}
ZeroConfig == [File |-> [Level |-> "", Path |-> EmptyString], Console |-> [Level |-> ""]]
ZeroViper == [filePath |-> EmptyString, fileLevel |-> "", consoleLevel |-> ""]
NoSupplied == [fileLevel |-> <<>>, filePath |-> <<>>, consoleLevel |-> <<>>]
Callers == 1 .. NumCallers
Idle == [at |-> "idle", k |-> 0]

InitCommon ==
    /\ validate = {}
    /\ verrs = {}
    /\ newRet = [logger |-> FALSE, err |-> NoErr]
    /\ errOut = <<>>
    /\ calls = <<>>
    /\ trace = <<>>
    /\ hookRet = <<>>
    /\ cpc = [c \in Callers |-> Idle]
    /\ csent = [c \in Callers |-> 0]
    /\ mu = 0
    /\ stderr = <<>>
    /\ mkdirErr = NoErr
    /\ gotInfo = NoInfo

\* process start: nothing registered, nothing built
Init ==
    /\ pc = "init"
    /\ pkgName \in PackageNames
    /\ supplied \in [fileLevel : Opt(Candidates), filePath : Opt(Paths),
                      consoleLevel : Opt(Candidates)]
    /\ viper = ZeroViper
    /\ config = ZeroConfig
    /\ fileSink = Unbuilt
    /\ consoleSink = Unbuilt
    /\ InitCommon

\* a caller that builds a LoggerConfig itself and hands it to New
InitNew ==
    /\ pc = "direct"
    /\ pkgName = "arsenal"
    /\ supplied = NoSupplied
    /\ viper = ViperDefaults(pkgName)
    /\ config \in {[File |-> [Level |-> f, Path |-> p], Console |-> [Level |-> c]] :
                      f \in Candidates, p \in Paths, c \in Candidates}
    /\ fileSink = Unbuilt
    /\ consoleSink = Unbuilt
    /\ InitCommon

(***************************************************************************)
(* Startup sequence                                                        *)
(***************************************************************************)
init ==
    /\ pc = "init"
    /\ viper' = ViperDefaults(pkgName)
    /\ pc' = "decorate"
    /\ UNCHANGED <<pkgName, supplied, config, validate, verrs, newRet, fileSink,
                   consoleSink, errOut, calls, trace, hookRet>>
    /\ UNCHANGED <<mkdirErr, gotInfo>>
    /\ UNCHANGED concVars

RegisterLogLevelValidation ==
    /\ pc = "decorate"
    /\ validate' = validate \cup {"loglevel"}
    /\ pc' = "load"
    /\ UNCHANGED <<pkgName, viper, supplied, config, verrs, newRet, fileSink,
                   consoleSink, errOut, calls, trace, hookRet>>
    /\ UNCHANGED <<mkdirErr, gotInfo>>
    /\ UNCHANGED concVars

Load ==
    /\ pc = "load"
    /\ config' = LoadConfig(supplied, viper)
    /\ pc' = "validate"
    /\ UNCHANGED <<pkgName, viper, supplied, validate, verrs, newRet, fileSink,
                   consoleSink, errOut, calls, trace, hookRet>>
    /\ UNCHANGED <<mkdirErr, gotInfo>>
    /\ UNCHANGED concVars

Validate ==
    /\ pc = "validate"
    /\ verrs' = StructErrs(config, validate)
    /\ pc' = IF verrs' = {} THEN "provide" ELSE "aborted"
    /\ UNCHANGED <<pkgName, viper, supplied, config, validate, newRet, fileSink,
                   consoleSink, errOut, calls, trace, hookRet>>
    /\ UNCHANGED <<mkdirErr, gotInfo>>
    /\ UNCHANGED concVars

\* the call of New, by the container or by a direct caller
CallNew ==
    /\ pc \in {"provide", "direct"}
    /\ \E envErr \in MkdirErrs \cup {NoErr} :
         LET r == New(config, envErr) IN
         /\ mkdirErr' = MkdirAll(config.File.Path, envErr)
         /\ newRet' = [logger |-> r.logger, err |-> r.err]
         /\ fileSink' = r.file
         /\ consoleSink' = r.console
         /\ pc' = IF ~r.logger THEN "aborted"
                   ELSE IF pc = "provide" THEN "start" ELSE "ready"
    /\ UNCHANGED <<pkgName, viper, supplied, config, validate, verrs,
                   errOut, calls, trace, hookRet>>
    /\ UNCHANGED gotInfo
    /\ UNCHANGED concVars

RunHook(h, fileOK) ==
    LET s == LogAll(Sinks, zapInfoLevel, h.msgs, fileOK) IN
    /\ fileSink' = s.file
    /\ consoleSink' = s.console
    /\ errOut' = s.errOut
    /\ trace' = trace \o h.trace
    /\ hookRet' = Append(hookRet, h.ret)

Start ==
    /\ pc = "start"
    /\ \E gi \in GetInfoResults, fileOK \in BOOLEAN :
         LET h == OnStart(gi) IN
         /\ gotInfo' = gi
         /\ RunHook(h, fileOK)
         /\ pc' = IF h.ret = NoErr THEN "running" ELSE "aborted"
    /\ UNCHANGED <<pkgName, viper, supplied, config, validate, verrs, newRet, calls>>
    /\ UNCHANGED mkdirErr
    /\ UNCHANGED concVars

Stop ==
    /\ pc = "running"
    /\ \E fileOK \in BOOLEAN : RunHook(OnStop, fileOK)
    /\ pc' = "stopped"
    /\ UNCHANGED <<pkgName, viper, supplied, config, validate, verrs, newRet, calls>>
    /\ UNCHANGED <<mkdirErr, gotInfo>>
    /\ UNCHANGED concVars

(***************************************************************************)
(* Log calls of a single caller                                            *)
(***************************************************************************)
LogCall ==
    /\ pc = "ready"
    /\ Len(calls) < MaxCalls
    /\ \E l \in ZapLevels, fileOK \in BOOLEAN :
         LET msg == <<"msg", Len(calls) + 1>>
             s == LogAll(Sinks, l, <<msg>>, fileOK)
             failed == FileTried(fileSink, l) /\ ~fileOK
             out == CallOutcome(l, failed)
         IN /\ fileSink' = s.file
            /\ consoleSink' = s.console
            /\ errOut' = s.errOut
            /\ calls' = Append(calls, [level |-> l, msg |-> msg, fileOK |-> fileOK,
                                        fileTried |-> FileTried(fileSink, l),
                                        outcome |-> out])
            \* fatal ends the process; a panic is recovered by the caller
            /\ pc' = IF out = "exit" THEN "exited" ELSE "ready"
    /\ UNCHANGED <<pkgName, viper, supplied, config, validate, verrs, newRet,
                   trace, hookRet>>
    /\ UNCHANGED <<mkdirErr, gotInfo>>
    /\ UNCHANGED concVars

(***************************************************************************)
(* Concurrent log callers                                                  *)
(***************************************************************************)
ConcConfigs ==
    {[File |-> [Level |-> f, Path |-> TmpLogs], Console |-> [Level |-> c]] :
         f \in {"info", "error"}, c \in {"debug", "info"}}

\* the logger is built; the callers have not logged yet
InitConc ==
    /\ pc = "conc"
    /\ pkgName = "arsenal"
    /\ supplied = NoSupplied
    /\ viper = ViperDefaults(pkgName)
    /\ config \in ConcConfigs
    /\ fileSink = New(config, NoErr).file
    /\ consoleSink = New(config, NoErr).console
    /\ InitCommon

\* a writer that takes no lock
LockFree_NoLock(holder) == TRUE

\* zapcore.Lock: Write goes on only while no other Write holds the mutex
LockFree(holder) == holder = 0

\* caller c starts an info call: the file core is written (under the rotating
\* writer's own mutex), then the console core is queued on the stream's lock
ConcLog(c) ==
    /\ pc = "conc"
    /\ cpc[c].at = "idle"
    /\ csent[c] < MsgsPerCaller
    /\ LET msg == <<"msg", c, csent[c] + 1>> IN
       /\ fileSink' = IF FileWritten(fileSink, zapInfoLevel, TRUE)
                       THEN [fileSink EXCEPT !.out = Append(@, FileLine(zapInfoLevel, msg))]
                       ELSE fileSink
       /\ IF ConsoleWritten(consoleSink, fileSink, zapInfoLevel, TRUE)
          THEN /\ cpc' = [cpc EXCEPT ![c] = [at |-> "lock", k |-> 0]]
               /\ csent' = csent
          ELSE /\ cpc' = cpc
               /\ csent' = [csent EXCEPT ![c] = @ + 1]
    /\ UNCHANGED <<pc, config, newRet, consoleSink, errOut, calls, mu, stderr>>
    /\ UNCHANGED lifeVars

\* lockedWriteSyncer.Write: mu.Lock()
ConcAcquire(c) ==
    /\ pc = "conc"
    /\ cpc[c].at = "lock"
    /\ LockFree(mu)
    /\ mu' = c
    /\ cpc' = [cpc EXCEPT ![c] = [at |-> "write", k |-> 0]]
    /\ UNCHANGED <<pc, config, newRet, fileSink, consoleSink, errOut, calls, csent, stderr>>
    /\ UNCHANGED lifeVars

\* the stream takes the next chunk of the caller's encoded line
ConcWrite(c) ==
    /\ pc = "conc"
    /\ cpc[c].at = "write"
    /\ cpc[c].k < LineLen
    /\ stderr' = Append(stderr, [caller |-> c, msg |-> csent[c] + 1, chunk |-> cpc[c].k + 1])
    /\ cpc' = [cpc EXCEPT ![c].k = @ + 1]
    /\ UNCHANGED <<pc, config, newRet, fileSink, consoleSink, errOut, calls, csent, mu>>
    /\ UNCHANGED lifeVars

\* lockedWriteSyncer.Write: mu.Unlock() and return to the caller
ConcRelease(c) ==
    /\ pc = "conc"
    /\ cpc[c].at = "write"
    /\ cpc[c].k = LineLen
    /\ mu' = 0
    /\ cpc' = [cpc EXCEPT ![c] = Idle]
    /\ csent' = [csent EXCEPT ![c] = @ + 1]
    /\ consoleSink' = [consoleSink EXCEPT !.out =
                          Append(@, ConsoleLine(zapInfoLevel, <<"msg", c, csent[c] + 1>>))]
    /\ UNCHANGED <<pc, config, newRet, fileSink, errOut, calls, stderr>>
    /\ UNCHANGED lifeVars

NextConc ==
    \E c \in Callers : ConcLog(c) \/ ConcAcquire(c) \/ ConcWrite(c) \/ ConcRelease(c)

SpecConc == InitConc /\ [][NextConc]_vars

Next == init \/ RegisterLogLevelValidation \/ Load \/ Validate \/ CallNew \/ Start \/ Stop

Spec == Init /\ [][Next]_vars

NextNew == CallNew \/ LogCall

SpecNew == InitNew /\ [][NextNew]_vars

(***************************************************************************)
(* Properties                                                              *)
(***************************************************************************)
\* the order of the vocabulary, lowest first
Order == <<"debug", "info", "warn", "error", "dpanic", "panic", "fatal">>
Pos(name) == CHOOSE i \in 1 .. Len(Order) : Order[i] = name
NameOf(l) == Order[l + 2]
Capital ==
    [n \in CanonicalNames |->
        CASE n = "debug" -> "DEBUG" [] n = "info" -> "INFO" [] n = "warn" -> "WARN"
          [] n = "error" -> "ERROR" [] n = "dpanic" -> "DPANIC"
          [] n = "panic" -> "PANIC" [] n = "fatal" -> "FATAL"]
FatalClass == {"dpanic", "panic", "fatal"}
Has(out, msg) == \E k \in 1 .. Len(out) : out[k].msg = msg
LineOf(out, msg) == out[CHOOSE k \in 1 .. Len(out) : out[k].msg = msg]
Validated == pc \in {"provide", "start", "running", "stopped", "aborted"}
Started == pc \in {"start", "running", "stopped"}
CallIdx == 1 .. Len(calls)

\* C1: once the configuration has been validated, the loglevel rule has
\* answered true for a level field exactly when the field is one of the seven
\* canonical names (the empty string, case variants and unknown names are
\* refused), and validating changed neither the field nor the rule set.
C1_ValidatorExact ==
    Validated =>
        /\ \A v \in {config.File.Level, config.Console.Level} :
               validateLogLevel(v) <=> v \in CanonicalNames
        /\ <<"File.Level", "loglevel">> \in verrs
               <=> (config.File.Level # "" /\ config.File.Level \notin CanonicalNames)
        /\ <<"Console.Level", "loglevel">> \in verrs
               <=> (config.Console.Level # "" /\ config.Console.Level \notin CanonicalNames)
        /\ ~validateLogLevel("") /\ ~validateLogLevel("Info") /\ ~validateLogLevel("trace")
        /\ config = LoadConfig(supplied, viper)
        /\ validate = {"loglevel"}

C1_Witness ==
    /\ pc = "aborted"
    /\ config.File.Level = "Info"
    /\ config.Console.Level = "dpanic"
    /\ verrs = {<<"File.Level", "loglevel">>}

\* C2: with thresholds F and C among the seven levels, a call at level L
\* reaches the file sink iff L >= F and the console sink iff L >= C, each
\* decision taken on that sink's own threshold.
C2_PerSinkThreshold ==
    newRet.logger =>
        \A i \in CallIdx :
            LET c == calls[i] IN
            /\ config.File.Level \in CanonicalNames =>
                   /\ c.fileTried <=> Pos(NameOf(c.level)) >= Pos(config.File.Level)
                   /\ Has(fileSink.out, c.msg) <=> (c.fileTried /\ c.fileOK)
            /\ config.Console.Level \in CanonicalNames =>
                   Has(consoleSink.out, c.msg)
                       <=> Pos(NameOf(c.level)) >= Pos(config.Console.Level)

C2_Witness ==
    /\ config.File.Level = "error"
    /\ config.Console.Level = "debug"
    /\ \E i \in CallIdx :
         /\ calls[i].level = zapInfoLevel
         /\ calls[i].fileOK
         /\ Has(consoleSink.out, calls[i].msg)
         /\ ~Has(fileSink.out, calls[i].msg)

\* C3: when creating the directory fails, New has returned no logger and an
\* error that wraps the cause, it returned rather than panicked, and neither
\* sink was built.
C3_MkdirFailure ==
    mkdirErr # NoErr =>
        /\ pc = "aborted"
        /\ ~newRet.logger
        /\ Len(newRet.err) = Len(mkdirErr) + 1
        /\ Tail(newRet.err) = mkdirErr
        /\ ~fileSink.built
        /\ ~consoleSink.built
        /\ fileSink.out = <<>> /\ consoleSink.out = <<>>

C3_Witness ==
    /\ mkdirErr = <<"permission denied">>
    /\ config.File.Path = TmpLogs
    /\ newRet.err = <<"error in creating log file folder for writing", "permission denied">>

\* C4: a configuration with a level outside the seven names or with an empty
\* required field is refused by validation, the application does not start
\* on it, and a sink is only ever built after validation accepted the
\* configuration.
C4_ValidateBeforeSinks ==
    LET bad == \/ config.File.Level \notin CanonicalNames
               \/ config.Console.Level \notin CanonicalNames
               \/ config.File.Path = EmptyString
    IN /\ (fileSink.built \/ consoleSink.built) =>
              (Validated /\ verrs = {} /\ ~bad /\ "loglevel" \in validate)
       /\ (Validated /\ bad) =>
              (pc = "aborted" /\ verrs # {} /\ ~newRet.logger)
       /\ Started => ~bad

C4_Witness ==
    /\ pc = "aborted"
    /\ config.Console.Level = "trace"
    /\ config.File.Level = "info"
    /\ verrs = {<<"Console.Level", "loglevel">>}
    /\ ~fileSink.built /\ ~consoleSink.built

\* C5: once a write of the file sink has failed, that call and every later
\* call whose level passes the console threshold is still written to the
\* console sink, and the failure does not reach the caller: the call ends as
\* its level alone says.
C5_FileFailureIsolated ==
    newRet.logger =>
        \A i \in CallIdx :
            (calls[i].fileTried /\ ~calls[i].fileOK) =>
                /\ calls[i].level < zapPanicLevel => calls[i].outcome = "return"
                /\ \A j \in i .. Len(calls) :
                       calls[j].level >= consoleSink.level
                           => Has(consoleSink.out, calls[j].msg)

C5_Witness ==
    /\ Len(calls) = 2
    /\ calls[1].fileTried /\ ~calls[1].fileOK
    /\ calls[1].outcome = "return"
    /\ Has(consoleSink.out, calls[1].msg)
    /\ Has(consoleSink.out, calls[2].msg)
    /\ ~Has(fileSink.out, calls[1].msg)
\* C6: writes of concurrent callers to the console stream exclude one
\* another: what the stream has received is a run of whole lines, each from
\* one caller, followed by at most one line still being written, and when
\* all callers are done it holds exactly NumCallers * MsgsPerCaller lines,
\* one for every message of every caller.
C6_ConsoleLinesWhole ==
    /\ \A i \in 1 .. Len(stderr) :
           IF stderr[i].chunk = 1
           THEN i = 1 \/ stderr[i - 1].chunk = LineLen
           ELSE /\ i > 1
                /\ stderr[i - 1].caller = stderr[i].caller
                /\ stderr[i - 1].msg = stderr[i].msg
                /\ stderr[i - 1].chunk = stderr[i].chunk - 1
    /\ (\A c \in Callers : csent[c] = MsgsPerCaller) =>
           /\ Len(stderr) = NumCallers * MsgsPerCaller * LineLen
           /\ Cardinality({i \in 1 .. Len(stderr) : stderr[i].chunk = LineLen})
                  = NumCallers * MsgsPerCaller
           /\ \A c \in Callers, m \in 1 .. MsgsPerCaller :
                  Cardinality({i \in 1 .. Len(stderr) :
                                  stderr[i].caller = c /\ stderr[i].msg = m}) = LineLen

C6_Witness ==
    /\ \A c \in Callers : csent[c] = MsgsPerCaller
    /\ Len(fileSink.out) >= 2
    /\ fileSink.out[1].msg[2] = 1
    /\ stderr[1].caller = 2
    /\ stderr[LineLen + 1].caller = 1

\* C7: every line of the console sink carries the tag "[" LEVEL "]" of its
\* call's level in capitals; two lines carry the same tag only for the same
\* level, and the same color only for the same level or for two levels among
\* dpanic, panic and fatal.
C7_LevelTags ==
    \A i \in CallIdx, j \in CallIdx :
        (Has(consoleSink.out, calls[i].msg) /\ Has(consoleSink.out, calls[j].msg)) =>
            LET ti == LineOf(consoleSink.out, calls[i].msg).tag
                tj == LineOf(consoleSink.out, calls[j].msg).tag
                ni == NameOf(calls[i].level)
                nj == NameOf(calls[j].level)
            IN /\ ti.text = <<"[", Capital[ni], "]">>
               /\ (ti.text = tj.text) <=> (ni = nj)
               /\ (ti.color = tj.color)
                      <=> (ni = nj \/ (ni \in FatalClass /\ nj \in FatalClass))

C7_Witness ==
    /\ Len(calls) = 2
    /\ calls[1].level = zapDPanicLevel
    /\ calls[2].level = zapFatalLevel
    /\ Len(consoleSink.out) = 2
    /\ consoleSink.out[1].tag.text = <<"[", "DPANIC", "]">>
    /\ consoleSink.out[1].tag.color = consoleSink.out[2].tag.color

\* C8: with no logs.* value supplied the configuration is file.level = info,
\* console.level = info and file.path = /var/log joined with the package
\* name, and validation accepts it.
C8_Defaults ==
    (supplied = NoSupplied /\ pc \notin {"init", "decorate", "load"}) =>
        /\ config.File.Level = "info"
        /\ config.Console.Level = "info"
        /\ config.File.Path.abs
        /\ config.File.Path.elems =
              (CASE pkgName = "arsenal" -> <<"var", "log", "arsenal">>
                 [] pkgName = ""        -> <<"var", "log">>
                 [] pkgName = ".."      -> <<"var">>)
        /\ config.File.Path # EmptyString
        /\ Validated => verrs = {}
        /\ (pc = "aborted") => mkdirErr # NoErr \/ hookRet # <<>>

C8_Witness ==
    /\ supplied = NoSupplied
    /\ pkgName = "arsenal"
    /\ pc = "running"
    /\ fileSink.level = zapInfoLevel
    /\ consoleSink.level = zapInfoLevel

\* C9: New does not check level membership: given a level that is no key of
\* logLevelMap and a directory that can be created, it returns a logger and
\* no error, and the sink concerned has the threshold info, taking exactly
\* the calls at info and above.
C9_UnknownLevelIsInfo ==
    (pc \in {"ready", "exited"} /\ mkdirErr = NoErr) =>
        /\ config.File.Level \notin CanonicalNames =>
               /\ newRet.logger /\ newRet.err = NoErr
               /\ fileSink.built
               /\ NameOf(fileSink.level) = "info"
               /\ \A i \in CallIdx :
                      calls[i].fileTried <=> Pos(NameOf(calls[i].level)) >= Pos("info")
        /\ config.Console.Level \notin CanonicalNames =>
               /\ newRet.logger /\ newRet.err = NoErr
               /\ consoleSink.built
               /\ NameOf(consoleSink.level) = "info"
               /\ \A i \in CallIdx :
                      Has(consoleSink.out, calls[i].msg)
                          <=> Pos(NameOf(calls[i].level)) >= Pos("info")

C9_Witness ==
    /\ config.File.Level = "trace"
    /\ config.Console.Level = "debug"
    /\ Len(calls) = 2
    /\ calls[1].level = zapDebugLevel /\ ~calls[1].fileTried
    /\ calls[2].level = zapInfoLevel /\ calls[2].fileOK
    /\ Has(fileSink.out, calls[2].msg)

\* C10: the OnStart hook logs "Starting application:" and then calls GetInfo;
\* on an error it returns that error and logs nothing more; otherwise it logs
\* Name, Platform, Runtime, HostName, BuildCommit, BuildDate in this order
\* and returns nil. The OnStop hook logs one shutdown message and returns nil.
C10_HookOrder ==
    /\ hookRet = <<>> => trace = <<>>
    /\ hookRet # <<>> =>
          /\ Len(trace) >= 2
          /\ trace[1] = LogEv("Starting application:")
          /\ trace[2] = CallEv("GetInfo")
          /\ hookRet[1] = gotInfo.err
          /\ gotInfo.err # NoErr => (Len(trace) = 2 /\ pc = "aborted" /\ Len(hookRet) = 1)
          /\ gotInfo.err = NoErr =>
                /\ Len(trace) >= 8
                /\ SubSeq(trace, 3, 8) =
                      <<LogEv(gotInfo.info.Name), LogEv(gotInfo.info.Platform),
                        LogEv(gotInfo.info.Runtime), LogEv(gotInfo.info.HostName),
                        LogEv(gotInfo.info.BuildCommit), LogEv(gotInfo.info.BuildDate)>>
                /\ hookRet[1] = NoErr
                /\ pc = "running" => Len(trace) = 8
    /\ pc = "stopped" =>
          /\ Len(trace) = 9
          /\ trace[9] = LogEv(ShutdownMsg)
          /\ hookRet = <<NoErr, NoErr>>

C10_Witness ==
    /\ pc = "stopped"
    /\ gotInfo.info.HostName = "host-b"
    /\ trace[6] = LogEv("host-b")
    /\ Len(consoleSink.out) = 8
====
